---------------------------- MODULE Spec2Model ----------------------------
(***************************************************************************)
(* Verification model of svenslam/wikiplay.                                *)
(*                                                                         *)
(*   SpecAudio  - the narration player of components/FactModal.tsx         *)
(*                (playAudio / stopAudio, the Web Audio engine it drives   *)
(*                and the browser event loop that schedules them).         *)
(*   SpecAudioFair - SpecAudio with the progress of the event loop and of  *)
(*                the engine, for the liveness of playback completion.     *)
(*   SpecDecode - the pure PCM pipeline decode / decodeAudioData.          *)
(*   SpecBoard  - the spin loop and the throw resolver of                  *)
(*                components/Dartboard.tsx.                                *)
(*                                                                         *)
(*   SpecApp    - the quiz view of App.tsx: category selection, its        *)
(*                fetches, the modal, ambient mode and the scoreboard.     *)
(*   SpecAppFair - SpecApp with the content request settling.              *)
(*   SpecGraph  - the graph explorer of index.js: loadTopic, the history   *)
(*                stack and the loader.                                    *)
(*   SpecRadio  - components/RadioPlayer.tsx.                              *)
(*                                                                         *)
(* The components share no state; each specification holds the variables   *)
(* of the others at their initial values.                                  *)
(***************************************************************************)
EXTENDS Integers, Sequences, FiniteSets, TLC

VARIABLES
    \* ---- FactModal player (SpecAudio) ----
    mounted,          \* the FactModal component is mounted
    isOpen,           \* prop isOpen (App's modalOpen)
    audioBase64,      \* prop audioBase64 (App's currentAudio); NoAudio = null
    isPlaying,        \* useState isPlaying
    audioContextRef,  \* "null" or "ctx"
    ctxState,         \* AudioContext.state: "none" (no context), "suspended", "running"
    sourceNodeRef,    \* 0 = null, else the id of the source node held
    node,             \* per playAudio call: state of the source node it created
    pc,               \* per playAudio call: where the async function stands
    callAudio,        \* per playAudio call: the audioBase64 its closure captured
    decodeRes,        \* per playAudio call: how the decodeAudioData promise settled
    failedAt,         \* per playAudio call: the step that threw into its catch, "" if none
    microtasks,       \* FIFO of promise continuations ready to run
    endedQueue,       \* source nodes whose "ended" event is queued
    nextCall,         \* id of the next playAudio call
    lastOp,           \* history: the last handler that ran, <<name, call>>
    stopsInRow,       \* history: consecutive stopAudio calls (capped at 2)
    rowStopThrew,     \* history: source.stop() threw in this run of stopAudio calls
    userStopped,      \* history: stopAudio was called and no playAudio since
    uncaught,         \* history: an exception escaped a handler
    contextsCreated,  \* history: AudioContext objects constructed so far
    \* ---- decode pipeline (SpecDecode) ----
    b64,              \* input of decode: the base64 string
    numChannels,      \* argument of decodeAudioData
    dstage,           \* "input", "bytes", "buffer", "failed"
    bytes,            \* Uint8Array returned by decode
    buffer,           \* AudioBuffer returned by decodeAudioData: channel -> frames
    derr,             \* the exception raised, "" if none
    \* ---- Dartboard (SpecBoard) ----
    gameState,        \* prop gameState
    boardMounted,     \* the Dartboard component is mounted
    rotation,         \* useState rotation as last rendered (degrees, scaled by Unit)
    rotationUpdates,  \* setRotation updaters queued and not yet rendered
    lastTimeRef,      \* 0, or 1 for any later timestamp
    speedRef,         \* degrees per frame
    pendingFrames,    \* requestAnimationFrame callbacks scheduled, oldest first
    thrown,           \* locals of the last handleThrow, or NoThrow
    pendingHit,       \* categories waiting in setTimeout(onHit, 800)
    framesSinceSpin,  \* history: animate calls since the spin effect ran (capped at 2)
    \* ---- App quiz view (SpecApp) ----
    app,              \* the useState values of App, the quiz state of its
                      \* FactModal, and the handleCategorySelect calls made
    \* ---- graph explorer (SpecGraph) ----
    graph,            \* the state object of index.js, what the page shows,
                      \* and the loadTopic and handleClick calls made
    \* ---- RadioPlayer (SpecRadio) ----
    radio             \* the useState values of RadioPlayer, the updates not
                      \* yet rendered, and the audio element

audioVars == <<mounted, isOpen, audioBase64, isPlaying, audioContextRef,
               ctxState, sourceNodeRef, node, pc, callAudio, decodeRes,
               failedAt, microtasks, endedQueue, nextCall, lastOp, stopsInRow,
               rowStopThrew, userStopped, uncaught, contextsCreated>>
decodeVars == <<b64, numChannels, dstage, bytes, buffer, derr>>
boardVars == <<gameState, boardMounted, rotation, rotationUpdates, lastTimeRef,
               speedRef, pendingFrames, thrown, pendingHit, framesSinceSpin>>
appVars == <<app>>
graphVars == <<graph>>
radioVars == <<radio>>
vars == <<audioVars, decodeVars, boardVars, appVars, graphVars, radioVars>>

-----------------------------------------------------------------------------
(* Bounds of the model *)

\* playAudio calls followed per behaviour
MaxPlays == 3
\* handleCategorySelect calls followed per behaviour
MaxSelections == 2
\* loadTopic calls followed per behaviour, the initial one included
MaxLoads == 4
\* handleClick calls that can wait for getContent at one time
MaxClicks == 1
\* state updates of the radio player that can wait for their render
MaxRadioUpdates == 4
\* audio.play() promises that can be unsettled at one time
MaxPendingPlays == 2
\* longest base64 input (in base64 characters) given to decode
MaxB64Len == 6
\* largest numChannels given to decodeAudioData
MaxChannels == 2
\* longest base64 input over the two-character alphabet PlainSextets
MaxPlainB64Len == 14
\* setRotation updaters that may be queued before React renders them
MaxQueuedUpdates == 1

Calls == 1..MaxPlays

-----------------------------------------------------------------------------
(* decode / decodeAudioData: the PCM pipeline                              *)

\* A base64 string is the sequence of the 6-bit values of its characters
\* (padding and whitespace removed, as atob's forgiving-base64 decode does).
\* The alphabet is cut down to the characters that build the words 0x0000,
\* 0x8000 (-32768), 0x7FFF (32767) and 0xFFFF (-1).
Sextets == {0, 8, 55, 63}

\* the two characters used for the longer inputs (up to 5 samples)
PlainSextets == {0, 8}

RECURSIVE SeqsUpTo(_, _)
SeqsUpTo(S, n) ==
    IF n = 0 THEN {<<>>}
    ELSE LET shorter == SeqsUpTo(S, n - 1)
         IN  shorter \cup {Append(s, x) : s \in {t \in shorter : Len(t) = n - 1}, x \in S}

NoAudio == <<>>

\* atob: every 4 characters give 3 bytes; 2 left over give 1 byte, 3 left
\* over give 2 bytes; 1 left over is an InvalidCharacterError.
atobThrows(s) == Len(s) % 4 = 1

atobLen(s) == (Len(s) \div 4) * 3 + (CASE Len(s) % 4 = 2 -> 1
                                       [] Len(s) % 4 = 3 -> 2
                                       [] OTHER -> 0)

\* charCodeAt(i) of atob(s), i counted from 0
atobByte(s, i) ==
    LET g == (i \div 3) * 4
        k == i % 3
    IN  CASE k = 0 -> s[g + 1] * 4 + (s[g + 2] \div 16)
          [] k = 1 -> (s[g + 2] % 16) * 16 + (s[g + 3] \div 4)
          [] OTHER -> (s[g + 3] % 4) * 64 + s[g + 4]

\* decode(base64): the Uint8Array, as a sequence of bytes
decode(s) == [i \in 1..atobLen(s) |-> atobByte(s, i - 1)]

\* an Int16Array view that would drop a trailing odd byte instead of throwing
Int16ArrayTruncates(data) == FALSE

\* new Int16Array(data.buffer) raises a RangeError unless the buffer's byte
\* length is a multiple of 2.
Int16ArrayThrows(data) == Len(data) % 2 = 1

\* element k (from 0) of the Int16Array view: little-endian two's complement
Int16At(data, k) ==
    LET w == data[2 * k + 1] + 256 * data[2 * k + 2]
    IN  IF w >= 32768 THEN w - 65536 ELSE w

Int16Array(data) == [k \in 1..(Len(data) \div 2) |-> Int16At(data, k - 1)]

\* a createBuffer that refuses a frameCount with a fractional part
createBufferLengthWholeOnly(samples, nch) ==
    IF samples % nch = 0 THEN samples \div nch ELSE 0

\* ctx.createBuffer(numChannels, frameCount, sampleRate): frameCount is
\* converted to an unsigned long (truncated); a length of 0 is a
\* NotSupportedError.
createBufferLength(samples, nch) == samples \div nch

createBufferThrows(samples, nch) == createBufferLength(samples, nch) = 0

\* const frameCount = dataInt16.length / numChannels: the quotient, not
\* rounded, kept as an exact fraction
frameCount(samples, nch) == [num |-> samples, den |-> nch]

\* the values i takes in `for (let i = 0; i < frameCount; i++)`
LoopFrames(samples, nch) ==
    {i \in 0..samples : i * frameCount(samples, nch).den < frameCount(samples, nch).num}

\* a de-quantization that divides by 32767
DequantizeBy32767(dataInt16, i, channel, nch) ==
    [num |-> dataInt16[i * nch + channel + 1], den |-> 32767]

\* dataInt16[i * numChannels + channel] / 32768.0, kept as an exact fraction
Dequantize(dataInt16, i, channel, nch) ==
    [num |-> dataInt16[i * nch + channel + 1], den |-> 32768]

\* decodeAudioData(data, ctx, 24000, nch): the filled AudioBuffer. The
\* channel data start as zeros; the loop runs while i < frameCount, and a
\* write past the buffer's length is dropped by the Float32Array.
decodeAudioData(data, nch) ==
    LET dataInt16 == Int16Array(data)
        length == createBufferLength(Len(dataInt16), nch)
    IN  [channel \in 0..(nch - 1) |->
            [i \in 1..length |->
                IF (i - 1) \in LoopFrames(Len(dataInt16), nch)
                THEN Dequantize(dataInt16, i - 1, channel, nch)
                ELSE [num |-> 0, den |-> 32768]]]

\* how the promise of decodeAudioData(decode(s), ctx, 24000, nch) settles
decodeOutcome(s, nch) ==
    IF Int16ArrayThrows(decode(s)) THEN "RangeError"
    ELSE IF createBufferThrows(Len(decode(s)) \div 2, nch) THEN "NotSupportedError"
    ELSE "ok"

-----------------------------------------------------------------------------
(* Initial values of the components *)

\* Object.values(Category)
CATEGORIES == <<"Geschiedenis", "Wetenschap", "Natuur", "Sport", "Kunst",
                "Technologie", "Geografie", "Entertainment">>

NoThrow == [done |-> FALSE]

\* null, for the values App holds
Null == [kind |-> "null"]

\* the cards of the category grid that are clicked: two of the eight, so
\* that a selection has a category other than its own beside it
AppCategories == {CATEGORIES[1], CATEGORIES[2]}

Selections == 1..MaxSelections

Loads == 1..MaxLoads

\* the options of a quiz, and the one its correctAnswer names
Options == {"A", "B"}
CorrectOption == "A"

\* the useState values of App (gameState, currentCategory, currentFact, ...),
\* selectedOption and quizResult of FactModal, and no handleCategorySelect
\* call made; calls[k] is call k: the await it stands at and its category
InitAppState(hasClient) ==
    app = [ai |-> hasClient,
           gameState |-> "IDLE",
           currentCategory |-> "null",
           currentFact |-> Null,
           currentQuiz |-> Null,
           currentImage |-> Null,
           currentAudio |-> Null,
           modalOpen |-> FALSE,
           initialModalView |-> "fact",
           isAssetsLoading |-> FALSE,
           isAmbientMode |-> FALSE,
           scores |-> [c \in AppCategories |-> [correct |-> 0, wrong |-> 0]],
           selectedOption |-> "null",
           quizResult |-> "null",
           calls |-> <<>>]

InitAppVars == InitAppState(TRUE)

\* DOMContentLoaded: Graph.init() and the synchronous part of
\* Graph.loadTopic("Internet", false).  loads[id] is loadTopic call id: its
\* stage ("links" while it awaits getLinks), its topic, and currentTopic and
\* history as they were when it was called; clicks holds the nodes of the
\* handleClick calls awaiting getContent; lastNav remembers the state the
\* last navigation started from
InitGraphVars ==
    graph = [history |-> <<>>,
             currentTopic |-> "Internet",
             centre |-> "null",
             links |-> {},
             loaderActive |-> TRUE,
             backDisabled |-> TRUE,
             selectedNode |-> "null",
             loads |-> <<[stage |-> "links", topic |-> "Internet",
                          before |-> [topic |-> "null", history |-> <<>>]]>>,
             clicks |-> <<>>,
             lastNav |-> [kind |-> "none"]]

\* the useState values of RadioPlayer
RadioState(playing, err, index) == [isPlaying |-> playing, error |-> err, index |-> index]

\* isPlaying, error, currentStationIndex as last rendered and volume (in
\* percent); updates are the state updates made since the first one not yet
\* rendered and base the state they are applied to; the audio element is
\* paused, with pendingPlays promises of play() not yet settled
InitRadioVars ==
    radio = [isPlaying |-> FALSE,
             error |-> FALSE,
             currentStationIndex |-> 0,
             volume |-> 50,
             base |-> RadioState(FALSE, FALSE, 0),
             updates |-> <<>>,
             audioPaused |-> TRUE,
             pendingPlays |-> 0]

InitAudioVars ==
    /\ mounted = TRUE
    /\ isOpen = FALSE
    /\ audioBase64 = NoAudio
    /\ isPlaying = FALSE
    /\ audioContextRef = "null"
    /\ ctxState = "none"
    /\ sourceNodeRef = 0
    /\ node = [c \in Calls |-> "none"]
    /\ pc = [c \in Calls |-> "idle"]
    /\ callAudio = [c \in Calls |-> NoAudio]
    /\ decodeRes = [c \in Calls |-> "none"]
    /\ failedAt = [c \in Calls |-> ""]
    /\ microtasks = <<>>
    /\ endedQueue = {}
    /\ nextCall = 1
    /\ lastOp = <<"init", 0>>
    /\ stopsInRow = 0
    /\ rowStopThrew = FALSE
    /\ userStopped = FALSE
    /\ uncaught = FALSE
    /\ contextsCreated = 0

InitDecodeVars ==
    /\ b64 = NoAudio
    /\ numChannels = 1
    /\ dstage = "input"
    /\ bytes = <<>>
    /\ buffer = <<>>
    /\ derr = ""

InitBoardVars ==
    /\ gameState = "IDLE"
    /\ boardMounted = TRUE
    /\ rotation = 0
    /\ rotationUpdates = 0
    /\ lastTimeRef = 0
    /\ speedRef = 0
    /\ pendingFrames = <<>>
    /\ thrown = NoThrow
    /\ pendingHit = <<>>
    /\ framesSinceSpin = 0

-----------------------------------------------------------------------------
(* SpecDecode: decodeAudioData(decode(x)) applied to every input playAudio  *)
(* can hand it.  playAudio returns before decoding when audioBase64 is     *)
(* empty, so the inputs are the non-empty strings.                         *)

InitDecode ==
    /\ b64 \in (SeqsUpTo(Sextets, MaxB64Len)
                 \cup SeqsUpTo(PlainSextets, MaxPlainB64Len)) \ {NoAudio}
    /\ numChannels \in 1..MaxChannels
    /\ dstage = "input"
    /\ bytes = <<>>
    /\ buffer = <<>>
    /\ derr = ""
    /\ InitAudioVars
    /\ InitBoardVars /\ InitAppVars /\ InitGraphVars /\ InitRadioVars

\* const audioData = decode(audioBase64)
DecodeStep ==
    /\ dstage = "input"
    /\ IF atobThrows(b64)
       THEN /\ dstage' = "failed"
            /\ derr' = "InvalidCharacterError"
            /\ bytes' = bytes
       ELSE /\ dstage' = "bytes"
            /\ derr' = derr
            /\ bytes' = decode(b64)
    /\ UNCHANGED <<b64, numChannels, buffer>>
    /\ UNCHANGED <<audioVars, boardVars, appVars, graphVars, radioVars>>

\* const buffer = await decodeAudioData(audioData, ctx, 24000, numChannels)
DecodeAudioDataStep ==
    /\ dstage = "bytes"
    /\ IF Int16ArrayThrows(bytes)
       THEN /\ dstage' = "failed"
            /\ derr' = "RangeError"
            /\ buffer' = buffer
       ELSE IF createBufferThrows(Len(Int16Array(bytes)), numChannels)
       THEN /\ dstage' = "failed"
            /\ derr' = "NotSupportedError"
            /\ buffer' = buffer
       ELSE /\ dstage' = "buffer"
            /\ derr' = derr
            /\ buffer' = decodeAudioData(bytes, numChannels)
    /\ UNCHANGED <<b64, numChannels, bytes>>
    /\ UNCHANGED <<audioVars, boardVars, appVars, graphVars, radioVars>>

NextDecode == DecodeStep \/ DecodeAudioDataStep

SpecDecode == InitDecode /\ [][NextDecode]_vars

\* decodeAudioData has run (to a buffer or to an exception) on these bytes
DecodeActed == dstage \in {"buffer", "failed"} /\ bytes # <<>>

\* the 16-bit word k (from 0) of a byte sequence, read as the claims read it:
\* little-endian, signed
WordAt(data, k) ==
    LET lo == data[2 * k + 1]
        hi == data[2 * k + 2]
    IN  IF hi >= 128 THEN lo + 256 * hi - 65536 ELSE lo + 256 * hi

\* C6 (as stated): an odd number of decoded bytes is truncated silently:
\* decoding yields floor(byteLength/2) samples and no error is raised.
C6_OddTailDropped ==
    (DecodeActed /\ Len(bytes) % 2 = 1) =>
        /\ dstage = "buffer"
        /\ derr = ""
        /\ \A ch \in DOMAIN buffer :
              Len(buffer[ch]) = (Len(bytes) \div 2) \div numChannels

\* C6 (amended): an odd number of decoded bytes makes decodeAudioData fail
\* with a RangeError (the Int16Array view cannot be built); no byte is
\* dropped and no buffer is produced.
C6_OddRejected ==
    (DecodeActed /\ Len(bytes) % 2 = 1) =>
        /\ dstage = "failed"
        /\ derr = "RangeError"
        /\ buffer = <<>>

C6_Witness ==
    /\ DecodeActed
    /\ Len(bytes) = 3
    /\ dstage = "failed"
    /\ derr = "RangeError"

\* C7: for an even number of bytes that splits into whole frames,
\* decodeAudioData(decode(x)) succeeds with byteLength/2/numChannels frames
\* per channel, frame i of channel c is sample i*numChannels+c divided by
\* 32768, and every value lies in [-1, 1].
C7_FramesAndRange ==
    (/\ DecodeActed
     /\ Len(bytes) % 2 = 0
     /\ (Len(bytes) \div 2) % numChannels = 0) =>
        /\ dstage = "buffer"
        /\ DOMAIN buffer = 0..(numChannels - 1)
        /\ \A ch \in DOMAIN buffer :
              /\ Len(buffer[ch]) * numChannels * 2 = Len(bytes)
              /\ \A i \in 1..Len(buffer[ch]) :
                    /\ buffer[ch][i].den = 32768
                    /\ buffer[ch][i].num = WordAt(bytes, (i - 1) * numChannels + ch)
                    /\ buffer[ch][i].num >= -(buffer[ch][i].den)
                    /\ buffer[ch][i].num <= buffer[ch][i].den

\* a two-channel buffer of one frame: sample 0 (the most negative value) in
\* channel 0, sample 1 in channel 1
C7_Witness ==
    /\ dstage = "buffer"
    /\ numChannels = 2
    /\ Len(bytes) = 4
    /\ Len(buffer[0]) = 1
    /\ buffer[0][1].num = -32768
    /\ buffer[1][1].num = 9023

\* the number of 16-bit samples in the decoded bytes
SampleCount == Len(bytes) \div 2

\* the buffer holds, per channel, the first `frames` frames of the
\* interleaved samples, each divided by 32768
HoldsFrames(frames) ==
    /\ DOMAIN buffer = 0..(numChannels - 1)
    /\ \A ch \in DOMAIN buffer :
          /\ Len(buffer[ch]) = frames
          /\ \A i \in 1..frames :
                /\ buffer[ch][i].num = WordAt(bytes, (i - 1) * numChannels + ch)
                /\ buffer[ch][i].den = 32768

\* C16 (as stated): for every sample count and channel count the frameCount
\* decodeAudioData uses is the integer floor(sampleCount / numChannels), the
\* buffer has that many frames per channel and the remainder is dropped.
C16_FloorFramesAlways ==
    (DecodeActed /\ Len(bytes) % 2 = 0) =>
        /\ frameCount(SampleCount, numChannels).num
              = (SampleCount \div numChannels) * frameCount(SampleCount, numChannels).den
        /\ dstage = "buffer"
        /\ HoldsFrames(SampleCount \div numChannels)

\* C16 (amended): with at least one whole frame (sampleCount >= numChannels)
\* the buffer has floor(sampleCount / numChannels) frames per channel and the
\* remainder samples are dropped, although frameCount itself is the
\* unrounded quotient; with fewer samples than channels no buffer is made
\* and createBuffer's NotSupportedError is raised.
C16_FloorFramesWhenAny ==
    (DecodeActed /\ Len(bytes) % 2 = 0) =>
        IF SampleCount >= numChannels
        THEN /\ dstage = "buffer"
             /\ derr = ""
             /\ HoldsFrames(SampleCount \div numChannels)
             /\ 0..((SampleCount \div numChannels) - 1)
                   \subseteq LoopFrames(SampleCount, numChannels)
        ELSE /\ dstage = "failed"
             /\ derr = "NotSupportedError"
             /\ buffer = <<>>

\* 5 samples in 2 channels: 2 frames per channel and the fifth sample, which
\* is not zero, is in neither channel
C16_Witness ==
    /\ dstage = "buffer"
    /\ numChannels = 2
    /\ Len(bytes) = 10
    /\ Len(buffer[0]) = 2
    /\ Len(buffer[1]) = 2
    /\ WordAt(bytes, 4) # 0
    /\ \A ch \in {0, 1} : \A i \in {1, 2} : buffer[ch][i].num # WordAt(bytes, 4)

-----------------------------------------------------------------------------
(* SpecAudio: the narration player of FactModal                            *)

\* the audio payloads the parent hands down: one sample of valid PCM, a
\* payload of odd byte length, and a string atob rejects
AudioProps == {<<0, 8, 0>>, <<0, 8>>, <<0>>}

RECURSIVE AscSeq(_)
AscSeq(S) ==
    IF S = {} THEN <<>>
    ELSE LET m == CHOOSE x \in S : \A y \in S : x <= y
         IN  <<m>> \o AscSeq(S \ {m})

\* what source.stop() can do to the node held: a playing node stops and its
\* "ended" event is queued; on a node that already ended the call is a no-op
\* or (legacy webkitAudioContext) an InvalidStateError.
StopThrowChoices ==
    IF sourceNodeRef # 0 /\ node[sourceNodeRef] = "ended" THEN BOOLEAN ELSE {FALSE}

\* stopAudio without the try/catch around source.stop()
stopAudioNoCatch(th) ==
    LET held == sourceNodeRef # 0
        playing == held /\ node[sourceNodeRef] = "playing"
        threw == held /\ node[sourceNodeRef] = "ended" /\ th
    IN  [node |-> IF playing THEN [node EXCEPT ![sourceNodeRef] = "stopped"] ELSE node,
         endedQueue |-> IF playing THEN endedQueue \cup {sourceNodeRef} ELSE endedQueue,
         sourceNodeRef |-> IF threw THEN sourceNodeRef ELSE 0,
         isPlaying |-> IF threw THEN isPlaying ELSE FALSE,
         threw |-> threw,
         raised |-> threw]

\* stopAudio: the values it leaves; th = the engine's stop() throws
stopAudio(th) ==
    LET held == sourceNodeRef # 0
        playing == held /\ node[sourceNodeRef] = "playing"
    IN  [node |-> IF playing THEN [node EXCEPT ![sourceNodeRef] = "stopped"] ELSE node,
         endedQueue |-> IF playing THEN endedQueue \cup {sourceNodeRef} ELSE endedQueue,
         sourceNodeRef |-> 0,
         isPlaying |-> FALSE,
         threw |-> held /\ node[sourceNodeRef] = "ended" /\ th,
         raised |-> FALSE]

\* history of a handler that is not stopAudio
NotAStop(op) ==
    /\ lastOp' = op
    /\ stopsInRow' = 0
    /\ rowStopThrew' = FALSE

\* stopAudio called from the UI (button, isOpen effect, unmount cleanup)
StopAudioCall(th) ==
    LET s == stopAudio(th)
    IN  /\ node' = s.node
        /\ endedQueue' = s.endedQueue
        /\ sourceNodeRef' = s.sourceNodeRef
        /\ isPlaying' = s.isPlaying
        /\ uncaught' = (uncaught \/ s.raised)
        /\ lastOp' = <<"stopAudio", 0>>
        /\ stopsInRow' = IF stopsInRow < 2 THEN stopsInRow + 1 ELSE 2
        /\ rowStopThrew' = (rowStopThrew \/ s.threw)
        /\ userStopped' = TRUE
        /\ UNCHANGED <<audioContextRef, contextsCreated, ctxState, pc, callAudio, decodeRes,
                       failedAt, microtasks, nextCall>>

\* a catch block that logs and leaves isPlaying as it was (cur)
PlayCatchNoReset(c, at, cur) ==
    /\ pc' = [pc EXCEPT ![c] = "failed"]
    /\ failedAt' = [failedAt EXCEPT ![c] = at]
    /\ isPlaying' = cur

\* catch (e) { console.error(...); setIsPlaying(false); }
PlayCatch(c, at, cur) ==
    /\ pc' = [pc EXCEPT ![c] = "failed"]
    /\ failedAt' = [failedAt EXCEPT ![c] = at]
    /\ isPlaying' = FALSE

\* decode(audioBase64), the call of decodeAudioData and the await on its
\* promise: the continuation is queued as a microtask behind `rest`
DecodeStage(c, cur, rest) ==
    IF atobThrows(callAudio'[c])
    THEN /\ PlayCatch(c, "decode", cur)
         /\ microtasks' = rest
         /\ UNCHANGED decodeRes
    ELSE /\ pc' = [pc EXCEPT ![c] = "decode"]
         /\ decodeRes' = [decodeRes EXCEPT ![c] = decodeOutcome(callAudio'[c], 1)]
         /\ microtasks' = Append(rest, c)
         /\ isPlaying' = cur
         /\ UNCHANGED failedAt

\* a playAudio that constructs an AudioContext on every call
NeedsContextAlways == TRUE

\* if (!audioContextRef.current)
NeedsContext == audioContextRef = "null"

\* what `new AudioContext(...)` can do when no context exists yet
ContextChoices ==
    IF NeedsContext THEN {"throws", "suspended", "running"} ELSE {ctxState}

\* a playAudio that never waits for resume()
MustResumeNever(state) == FALSE

\* if (audioContextRef.current.state === 'suspended')
MustResume(state) == state = "suspended"

\* playAudio, from the call to its first await (or to its end)
PlayAudio(c) ==
    \E th \in StopThrowChoices, made \in ContextChoices :
      LET s == stopAudio(th)
      IN  /\ node' = s.node
          /\ endedQueue' = s.endedQueue
          /\ sourceNodeRef' = s.sourceNodeRef
          /\ callAudio' = [callAudio EXCEPT ![c] = audioBase64]
          /\ nextCall' = c + 1
          /\ userStopped' = FALSE
          /\ NotAStop(<<"playAudio", c>>)
          /\ UNCHANGED uncaught
          /\ IF s.raised
             THEN /\ PlayCatch(c, "stop", s.isPlaying)
                  /\ UNCHANGED <<audioContextRef, contextsCreated, ctxState,
                                 decodeRes, microtasks>>
             ELSE IF made = "throws"
             THEN /\ PlayCatch(c, "context", TRUE)
                  /\ UNCHANGED <<audioContextRef, contextsCreated, ctxState,
                                 decodeRes, microtasks>>
             ELSE /\ audioContextRef' = "ctx"
                  /\ contextsCreated' = IF NeedsContext THEN contextsCreated + 1
                                         ELSE contextsCreated
                  /\ ctxState' = made
                  /\ IF MustResume(made)
                     THEN /\ pc' = [pc EXCEPT ![c] = "resume"]
                          /\ isPlaying' = TRUE
                          /\ UNCHANGED <<decodeRes, failedAt, microtasks>>
                     ELSE DecodeStage(c, TRUE, microtasks)

\* no macrotask runs while a promise continuation is queued
EventLoopIdle == microtasks = <<>>

\* the audio button: onClick={isPlaying ? stopAudio : playAudio}; it is
\* rendered only while audioBase64 is set, so playAudio's first line
\* (if (!audioBase64) return) never returns here
ClickPlay ==
    /\ EventLoopIdle
    /\ mounted /\ isOpen
    /\ audioBase64 # NoAudio
    /\ ~isPlaying
    /\ nextCall <= MaxPlays
    /\ PlayAudio(nextCall)
    /\ UNCHANGED <<mounted, isOpen, audioBase64>>
    /\ UNCHANGED <<decodeVars, boardVars, appVars, graphVars, radioVars>>

ClickStop ==
    /\ EventLoopIdle
    /\ mounted /\ isOpen
    /\ audioBase64 # NoAudio
    /\ isPlaying
    /\ \E th \in StopThrowChoices : StopAudioCall(th)
    /\ UNCHANGED <<mounted, isOpen, audioBase64>>
    /\ UNCHANGED <<decodeVars, boardVars, appVars, graphVars, radioVars>>

\* App.handleCategorySelect: the modal opens with currentAudio reset to null
ParentOpen ==
    /\ EventLoopIdle
    /\ mounted /\ ~isOpen
    /\ isOpen' = TRUE
    /\ audioBase64' = NoAudio
    /\ NotAStop(<<"open", 0>>)
    /\ UNCHANGED <<mounted, isPlaying, audioContextRef, contextsCreated, ctxState, sourceNodeRef,
                   node, pc, callAudio, decodeRes, failedAt, microtasks,
                   endedQueue, nextCall, userStopped, uncaught>>
    /\ UNCHANGED <<decodeVars, boardVars, appVars, graphVars, radioVars>>

\* App: setCurrentAudio(audio) once the narration has been fetched (the
\* modal may have been closed meanwhile)
ParentAssets ==
    /\ EventLoopIdle
    /\ mounted
    /\ audioBase64 = NoAudio
    /\ \E a \in AudioProps : audioBase64' = a
    /\ NotAStop(<<"assets", 0>>)
    /\ UNCHANGED <<mounted, isOpen, isPlaying, audioContextRef, contextsCreated, ctxState,
                   sourceNodeRef, node, pc, callAudio, decodeRes, failedAt,
                   microtasks, endedQueue, nextCall, userStopped, uncaught>>
    /\ UNCHANGED <<decodeVars, boardVars, appVars, graphVars, radioVars>>

\* a close whose isOpen effect does not call stopAudio
ParentCloseNoStop ==
    /\ EventLoopIdle
    /\ mounted /\ isOpen
    /\ isOpen' = FALSE
    /\ NotAStop(<<"close", 0>>)
    /\ UNCHANGED <<mounted, audioBase64, isPlaying, audioContextRef, contextsCreated, ctxState,
                   sourceNodeRef, node, pc, callAudio, decodeRes, failedAt,
                   microtasks, endedQueue, nextCall, userStopped, uncaught>>
    /\ UNCHANGED <<decodeVars, boardVars, appVars, graphVars, radioVars>>

\* App.handleCloseModal: isOpen becomes false and the isOpen effect calls stopAudio
ParentClose ==
    /\ EventLoopIdle
    /\ mounted /\ isOpen
    /\ isOpen' = FALSE
    /\ \E th \in StopThrowChoices : StopAudioCall(th)
    /\ UNCHANGED <<mounted, audioBase64>>
    /\ UNCHANGED <<decodeVars, boardVars, appVars, graphVars, radioVars>>

\* the component unmounts: the cleanup effect calls stopAudio
Unmount ==
    /\ EventLoopIdle
    /\ mounted
    /\ mounted' = FALSE
    /\ \E th \in StopThrowChoices : StopAudioCall(th)
    /\ UNCHANGED <<isOpen, audioBase64>>
    /\ UNCHANGED <<decodeVars, boardVars, appVars, graphVars, radioVars>>

Resuming == {c \in Calls : pc[c] = "resume"}

\* the engine starts running: every pending resume() promise resolves, in
\* the order the calls were made
EngineResumed ==
    /\ EventLoopIdle
    /\ ctxState = "suspended"
    /\ Resuming # {}
    /\ ctxState' = "running"
    /\ pc' = [c \in Calls |-> IF c \in Resuming THEN "resumed" ELSE pc[c]]
    /\ microtasks' = AscSeq(Resuming)
    /\ NotAStop(<<"resumed", 0>>)
    /\ UNCHANGED <<mounted, isOpen, audioBase64, isPlaying, audioContextRef, contextsCreated,
                   sourceNodeRef, node, callAudio, decodeRes, failedAt,
                   endedQueue, nextCall, userStopped, uncaught>>
    /\ UNCHANGED <<decodeVars, boardVars, appVars, graphVars, radioVars>>

\* the engine cannot start: every pending resume() promise rejects
EngineResumeRejected ==
    /\ EventLoopIdle
    /\ ctxState = "suspended"
    /\ Resuming # {}
    /\ pc' = [c \in Calls |-> IF c \in Resuming THEN "rejected" ELSE pc[c]]
    /\ microtasks' = AscSeq(Resuming)
    /\ NotAStop(<<"rejected", 0>>)
    /\ UNCHANGED <<mounted, isOpen, audioBase64, isPlaying, audioContextRef, contextsCreated,
                   ctxState, sourceNodeRef, node, callAudio, decodeRes, failedAt,
                   endedQueue, nextCall, userStopped, uncaught>>
    /\ UNCHANGED <<decodeVars, boardVars, appVars, graphVars, radioVars>>

\* createBufferSource .. sourceNodeRef.current = source, after the buffer
\* has been decoded
StartSource(c, rest) ==
    \E engine \in {"ok", "createBufferSource", "start"} :
      /\ microtasks' = rest
      /\ IF engine = "ok"
         THEN /\ node' = [node EXCEPT ![c] = "playing"]
              /\ sourceNodeRef' = c
              /\ pc' = [pc EXCEPT ![c] = "done"]
              /\ UNCHANGED <<isPlaying, failedAt>>
         ELSE /\ PlayCatch(c, engine, isPlaying)
              /\ UNCHANGED <<node, sourceNodeRef>>

\* the continuation of playAudio at the head of the microtask queue
RunMicrotask ==
    /\ microtasks # <<>>
    /\ LET c == Head(microtasks)
           rest == Tail(microtasks)
       IN  /\ NotAStop(<<"continue", c>>)
           /\ UNCHANGED <<mounted, isOpen, audioBase64, audioContextRef, contextsCreated, ctxState,
                          callAudio, endedQueue, nextCall, userStopped, uncaught>>
           /\ CASE pc[c] = "rejected" ->
                     /\ PlayCatch(c, "resume", isPlaying)
                     /\ microtasks' = rest
                     /\ UNCHANGED <<node, sourceNodeRef, decodeRes>>
                [] pc[c] = "resumed" ->
                     /\ DecodeStage(c, isPlaying, rest)
                     /\ UNCHANGED <<node, sourceNodeRef>>
                [] pc[c] = "decode" /\ decodeRes[c] # "ok" ->
                     /\ PlayCatch(c, decodeRes[c], isPlaying)
                     /\ microtasks' = rest
                     /\ UNCHANGED <<node, sourceNodeRef, decodeRes>>
                [] pc[c] = "decode" /\ decodeRes[c] = "ok" ->
                     /\ StartSource(c, rest)
                     /\ UNCHANGED decodeRes
    /\ UNCHANGED <<decodeVars, boardVars, appVars, graphVars, radioVars>>

\* a playing source reaches the end of its buffer: its "ended" event is queued
NaturalEnd ==
    /\ EventLoopIdle
    /\ \E c \in Calls :
          /\ node[c] = "playing"
          /\ node' = [node EXCEPT ![c] = "ended"]
          /\ endedQueue' = endedQueue \cup {c}
          /\ NotAStop(<<"ended", c>>)
    /\ UNCHANGED <<mounted, isOpen, audioBase64, isPlaying, audioContextRef, contextsCreated,
                   ctxState, sourceNodeRef, pc, callAudio, decodeRes, failedAt,
                   microtasks, nextCall, userStopped, uncaught>>
    /\ UNCHANGED <<decodeVars, boardVars, appVars, graphVars, radioVars>>

\* an onended handler that takes the event and leaves isPlaying as it is
OnEndedIgnored ==
    /\ EventLoopIdle
    /\ \E c \in endedQueue :
          /\ endedQueue' = endedQueue \ {c}
          /\ NotAStop(<<"onended", c>>)
    /\ UNCHANGED <<mounted, isOpen, audioBase64, isPlaying, audioContextRef, contextsCreated,
                   ctxState, sourceNodeRef, node, pc, callAudio, decodeRes,
                   failedAt, microtasks, nextCall, userStopped, uncaught>>
    /\ UNCHANGED <<decodeVars, boardVars, appVars, graphVars, radioVars>>

\* source.onended = () => setIsPlaying(false)
OnEnded ==
    /\ EventLoopIdle
    /\ \E c \in endedQueue :
          /\ endedQueue' = endedQueue \ {c}
          /\ isPlaying' = FALSE
          /\ NotAStop(<<"onended", c>>)
    /\ UNCHANGED <<mounted, isOpen, audioBase64, audioContextRef, contextsCreated, ctxState,
                   sourceNodeRef, node, pc, callAudio, decodeRes, failedAt,
                   microtasks, nextCall, userStopped, uncaught>>
    /\ UNCHANGED <<decodeVars, boardVars, appVars, graphVars, radioVars>>

InitAudio == InitAudioVars /\ InitDecodeVars /\ InitBoardVars /\ InitAppVars /\ InitGraphVars /\ InitRadioVars

NextAudio ==
    \/ ClickPlay
    \/ ClickStop
    \/ ParentOpen
    \/ ParentAssets
    \/ ParentClose
    \/ Unmount
    \/ EngineResumed
    \/ EngineResumeRejected
    \/ RunMicrotask
    \/ NaturalEnd
    \/ OnEnded

SpecAudio == InitAudio /\ [][NextAudio]_vars

\* the sessions: source nodes started and neither ended nor stopped
Sessions == {c \in Calls : node[c] = "playing"}

\* C1: at most one playback session exists at any time.
C1_AtMostOneSession == Cardinality(Sessions) <= 1

\* call c has been stopped by stopAudio or superseded by a later playAudio
Superseded(c) ==
    \/ node[c] = "stopped"
    \/ \E d \in Calls : d > c /\ pc[d] # "idle"

\* C2: the completion callback of a stopped or superseded session never
\* changes isPlaying.
C2_OnlyNewestCompletionFires ==
    [][\A c \in Calls :
          (c \in endedQueue /\ c \notin endedQueue' /\ Superseded(c))
              => isPlaying' = isPlaying]_vars

\* C3: after stopAudio, and until the next playAudio, no session is active.
C3_StopCancels == userStopped => Sessions = {}

\* C4: after stopAudio isPlaying is false, no source node is held and no
\* error has escaped, whether or not source.stop() threw; a stopAudio that
\* directly follows a stopAudio changes nothing of the player.
C4_StopIdempotent ==
    /\ [](lastOp[1] = "stopAudio" =>
             (isPlaying = FALSE /\ sourceNodeRef = 0 /\ ~uncaught))
    /\ [][(lastOp[1] = "stopAudio" /\ lastOp'[1] = "stopAudio") =>
             UNCHANGED <<isPlaying, sourceNodeRef, node, endedQueue, pc,
                         audioContextRef, contextsCreated, ctxState, microtasks, uncaught>>]_vars

\* two stopAudio calls in a row, the first of which met a throwing stop()
C4_Witness == stopsInRow = 2 /\ rowStopThrew

\* C5: the step at which a playAudio call fails leaves isPlaying false,
\* records no source node for that call, starts none, and lets no exception
\* escape.
C5_FailureIsCaught ==
    [][\A c \in Calls :
          (pc[c] # "failed" /\ pc'[c] = "failed") =>
              /\ isPlaying' = FALSE
              /\ sourceNodeRef' # c
              /\ node'[c] = "none"
              /\ ~uncaught']_vars

\* three calls that failed at engine creation, at resume and at start
C5_Witness ==
    /\ \E c \in Calls : failedAt[c] = "context"
    /\ \E c \in Calls : failedAt[c] = "resume"
    /\ \E c \in Calls : failedAt[c] = "start" /\ pc[c] = "failed" /\ ~isPlaying

\* SpecAudio with the progress the platform gives: the event loop runs every
\* queued promise continuation and dispatches every queued "ended" event,
\* and a source playing a finite buffer on a running context reaches its
\* end.  Nothing is assumed of the user, the parent or the engine's resume.
SpecAudioFair ==
    /\ SpecAudio
    /\ WF_vars(RunMicrotask)
    /\ WF_vars(NaturalEnd)
    /\ WF_vars(OnEnded)

\* C11: a session that has started is stopped, or else it completes: its
\* "ended" notification is delivered with no further call of the user and
\* leaves isPlaying false.
C11_SessionCompletes ==
    \A c \in Calls :
        (node[c] = "playing") ~>
            \/ node[c] = "stopped"
            \/ (lastOp = <<"onended", c>> /\ node[c] = "ended" /\ ~isPlaying)

\* the completion of a session nobody stopped has just switched the player off
C11_Witness ==
    /\ lastOp = <<"onended", 1>>
    /\ node[1] = "ended"
    /\ stopsInRow = 0
    /\ ~userStopped
    /\ nextCall = 2
    /\ ~isPlaying

\* C12: the step in which the modal closes (isOpen becomes false) or the
\* component unmounts leaves isPlaying false and no source node held, and
\* the node that was held is no longer playing.
C12_CloseStopsSession ==
    [][((isOpen /\ ~isOpen') \/ (mounted /\ ~mounted')) =>
          /\ isPlaying' = FALSE
          /\ sourceNodeRef' = 0
          /\ (sourceNodeRef # 0 => node'[sourceNodeRef] # "playing")]_vars

\* the modal has just been closed while the only session ever started was
\* playing: the close stopped it
C12_Witness ==
    /\ mounted /\ ~isOpen
    /\ lastOp[1] = "stopAudio"
    /\ stopsInRow = 1
    /\ nextCall = 2
    /\ node[1] = "stopped"
    /\ 1 \in endedQueue
    /\ sourceNodeRef = 0
    /\ ~isPlaying

\* C13: once the completion callback of a session has run, the player no
\* longer holds that session's source node.
C13_CompletionClearsHandle ==
    \A c \in Calls :
        (node[c] = "ended" /\ c \notin endedQueue) => sourceNodeRef # c

\* C14: at most one AudioContext is ever constructed, none before the first
\* playAudio call, and once the ref holds a context no step replaces it or
\* constructs another.
C14_OneContext ==
    /\ [](/\ contextsCreated <= 1
          /\ (contextsCreated = 1 <=> audioContextRef # "null")
          /\ (contextsCreated = 1 => nextCall > 1))
    /\ [][audioContextRef # "null" =>
             /\ audioContextRef' = audioContextRef
             /\ contextsCreated' = contextsCreated]_vars

\* three playAudio calls have run to their end on the one context
C14_Witness ==
    /\ contextsCreated = 1
    /\ pc[1] = "done" /\ pc[2] = "done" /\ pc[3] = "done"

\* C15: a source is started only on a running engine, and a call that is
\* waiting for resume() (or whose resume() was rejected) has started none.
C15_ResumeBeforeStart ==
    /\ [](\A c \in Calls : pc[c] \in {"resume", "rejected"} => node[c] = "none")
    /\ [][\A c \in Calls :
             (node[c] = "none" /\ node'[c] = "playing") =>
                 (ctxState = "running" /\ ctxState' = "running")]_vars

\* call 1 has just started its source while the later call 2 is still before
\* its own start: call 1 was waiting in resume() when call 2 was made (a call
\* that does not wait runs to its end before the next click is handled)
C15_Witness ==
    /\ lastOp = <<"continue", 1>>
    /\ node[1] = "playing"
    /\ pc[1] = "done"
    /\ pc[2] = "decode"
    /\ ctxState = "running"

-----------------------------------------------------------------------------
(* SpecBoard: the spin-and-throw resolver of Dartboard                     *)

\* Angles are JavaScript numbers: binary floating point, every arithmetic
\* result rounded to the nearest representable value, ties to even.  The
\* model keeps that arithmetic with a significand of Precision bits instead
\* of 53 (the rounding rules do not depend on the width).  An angle is held
\* as an integer count of 1/Unit degree; Unit is the spacing of the
\* representable values between 64 and 128 degrees.
Precision == 9

Unit == 2 ^ (Precision - 7)

Deg(d) == d * Unit

Abs(n) == IF n < 0 THEN -n ELSE n

RECURSIVE BitLen(_)
BitLen(m) == IF m = 0 THEN 0 ELSE 1 + BitLen(m \div 2)

\* a / b rounded to the nearest integer, ties to even (a >= 0, b > 0)
RoundHalfEven(a, b) ==
    LET q == a \div b
        r == a % b
    IN  IF 2 * r < b THEN q
        ELSE IF 2 * r > b THEN q + 1
        ELSE IF q % 2 = 0 THEN q ELSE q + 1

\* the representable number nearest to n
Fl(n) ==
    LET m == Abs(n)
        e == BitLen(m)
    IN  IF e <= Precision THEN n
        ELSE LET step == 2 ^ (e - Precision)
                 r == RoundHalfEven(m, step) * step
             IN  IF n < 0 THEN -r ELSE r

\* JavaScript's %: exact, with the sign of the dividend
JsRem(n, m) == IF n >= 0 THEN n % m ELSE -((-n) % m)

\* the power of two that scales a / b into [2^(Precision-1), 2^Precision)
RECURSIVE ScaleExp(_, _, _)
ScaleExp(a, b, k) ==
    IF a * 2 ^ k >= b * 2 ^ (Precision - 1) THEN k ELSE ScaleExp(a, b, k + 1)

\* Math.floor(a / b) for 0 <= a / b < 2^(Precision-1): the quotient is
\* rounded to the nearest representable number, then floored
FloorDiv(a, b) ==
    IF a = 0 THEN 0
    ELSE LET k == ScaleExp(a, b, 0)
         IN  RoundHalfEven(a * 2 ^ k, b) \div 2 ^ k

\* the values Math.atan2(hitY, hitX) * 180 / Math.PI can take: the
\* representable numbers of [-180, 180]
AtanDegs == {n \in Deg(-180)..Deg(180) : Fl(n) = n}

\* at the exact centre hitX and hitY are zeros of either sign, and
\* Math.atan2 of two zeros is 0, -0, pi or -pi
CentreAtanDegs == {Deg(-180), 0, Deg(180)}

\* let hitAngleDeg = atan2 * 180 / PI + 90; if (hitAngleDeg < 0) hitAngleDeg += 360
HitAngleDeg(atanDeg) ==
    LET a == Fl(atanDeg + Deg(90))
    IN  IF a < 0 THEN Fl(a + Deg(360)) ELSE a

\* let effectiveAngle = (hitAngleDeg - rotation) % 360;
\* if (effectiveAngle < 0) effectiveAngle += 360
EffectiveAngle(hitAngleDeg, rot) ==
    LET m == JsRem(Fl(hitAngleDeg - rot), Deg(360))
    IN  IF m < 0 THEN Fl(m + Deg(360)) ELSE m

\* const segmentSize = 360 / CATEGORIES.length
segmentSize == Deg(360) \div Len(CATEGORIES)

\* const index = Math.floor(effectiveAngle / segmentSize)
SliceIndex(effectiveAngle) == FloorDiv(effectiveAngle, segmentSize)

\* CATEGORIES[index]
CategoryAt(index) ==
    IF index \in 0..(Len(CATEGORIES) - 1) THEN CATEGORIES[index + 1] ELSE "undefined"

\* animationFrameRef.current = requestAnimationFrame(animate): the callback
\* closes over the gameState of the render that made it, and the ref now
\* names this request and no older one
RequestFrame(frames, closure) ==
    Append([j \in 1..Len(frames) |-> [frames[j] EXCEPT !.isRef = FALSE]],
           [closure |-> closure, isRef |-> TRUE])

\* an effect whose cancelAnimationFrame calls do nothing
CancelFrameNoop(frames) == frames

\* if (animationFrameRef.current) cancelAnimationFrame(animationFrameRef.current)
CancelFrame(frames) == SelectSeq(frames, LAMBDA f : ~f.isRef)

\* the effect on [gameState, animate] for a render with gameState = state:
\* the previous effect's cleanup, then the effect body
SpinEffect(state, frames) ==
    IF state = "SPINNING"
    THEN RequestFrame(CancelFrame(frames), state)
    ELSE CancelFrame(CancelFrame(frames))

\* an animate that treats no frame as the first
FirstFrameNever == FALSE

\* animate: lastTimeRef.current === 0, the first frame after the spin effect
FirstFrame == lastTimeRef = 0

\* n queued updaters prev => (prev + speedRef.current) % 360 applied in order
RECURSIVE ApplyUpdates(_, _)
ApplyUpdates(rot, n) ==
    IF n = 0 THEN rot
    ELSE ApplyUpdates(JsRem(Fl(rot + Deg(speedRef)), Deg(360)), n - 1)

\* the rotation the next render will show
EffectiveRotation == ApplyUpdates(rotation, rotationUpdates)

InitBoard == InitBoardVars /\ InitAudioVars /\ InitDecodeVars /\ InitAppVars /\ InitGraphVars /\ InitRadioVars

\* the parent sets gameState to SPINNING (a click: rendered and its effects
\* run before any other callback); the effect sets speedRef and lastTimeRef
\* and requests the first frame
ParentSpin ==
    /\ boardMounted
    /\ gameState = "IDLE"
    /\ gameState' = "SPINNING"
    /\ speedRef' = 8
    /\ lastTimeRef' = 0
    /\ pendingFrames' = SpinEffect("SPINNING", pendingFrames)
    /\ thrown' = NoThrow
    /\ framesSinceSpin' = 0
    /\ UNCHANGED <<boardMounted, rotation, rotationUpdates, pendingHit>>
    /\ UNCHANGED <<audioVars, decodeVars, appVars, graphVars, radioVars>>

\* animate(time), called by requestAnimationFrame: setRotation queues its
\* updater, which React renders in a later task
AnimateFrame ==
    /\ pendingFrames # <<>>
    /\ rotationUpdates < MaxQueuedUpdates
    /\ LET f == Head(pendingFrames)
       IN  pendingFrames' = IF f.closure = "SPINNING"
                            THEN RequestFrame(Tail(pendingFrames), f.closure)
                            ELSE Tail(pendingFrames)
    /\ rotationUpdates' = IF FirstFrame THEN rotationUpdates ELSE rotationUpdates + 1
    /\ lastTimeRef' = 1
    /\ framesSinceSpin' = IF framesSinceSpin < 2 THEN framesSinceSpin + 1 ELSE 2
    /\ UNCHANGED <<gameState, boardMounted, rotation, speedRef, thrown, pendingHit>>
    /\ UNCHANGED <<audioVars, decodeVars, appVars, graphVars, radioVars>>

\* React renders the queued setRotation updaters; gameState and animate are
\* the same, so the effect does not run
RenderRotation ==
    /\ boardMounted
    /\ rotationUpdates > 0
    /\ rotation' = ApplyUpdates(rotation, rotationUpdates)
    /\ rotationUpdates' = 0
    /\ UNCHANGED <<gameState, boardMounted, lastTimeRef, speedRef, pendingFrames,
                   thrown, pendingHit, framesSinceSpin>>
    /\ UNCHANGED <<audioVars, decodeVars, appVars, graphVars, radioVars>>

\* handleThrow: a click on the board while it spins.  It reads the rotation
\* of the render it belongs to; the click's updates are rendered at once, a
\* setRotation updater queued by a frame stays queued for its own render,
\* and the effect of the THROWN render cancels the pending frame
HandleThrow ==
    /\ boardMounted
    /\ gameState = "SPINNING"
    /\ gameState' = "THROWN"
    /\ pendingFrames' = SpinEffect("THROWN", pendingFrames)
    /\ \E centre \in BOOLEAN :
         \E atanDeg \in (IF centre THEN CentreAtanDegs ELSE AtanDegs) :
           LET hit == HitAngleDeg(atanDeg)
               eff == EffectiveAngle(hit, rotation)
               idx == SliceIndex(eff)
           IN  /\ thrown' = [done |-> TRUE, centre |-> centre, atanDeg |-> atanDeg,
                             hitAngleDeg |-> hit, rotation |-> rotation,
                             effectiveAngle |-> eff, index |-> idx,
                             hitCategory |-> CategoryAt(idx)]
               /\ pendingHit' = Append(pendingHit, CategoryAt(idx))
    /\ UNCHANGED <<boardMounted, rotation, rotationUpdates, lastTimeRef, speedRef,
                   framesSinceSpin>>
    /\ UNCHANGED <<audioVars, decodeVars, appVars, graphVars, radioVars>>

\* setTimeout(() => onHit(hitCategory), 800): the parent takes the category
\* (App.handleCategorySelect sets gameState to FETCHING); the render of that
\* update also renders the setRotation updaters still queued
OnHit ==
    /\ pendingHit # <<>>
    /\ pendingHit' = Tail(pendingHit)
    /\ gameState' = "FETCHING"
    /\ thrown' = NoThrow
    /\ IF boardMounted
       THEN /\ rotation' = ApplyUpdates(rotation, rotationUpdates)
            /\ rotationUpdates' = 0
            /\ pendingFrames' = SpinEffect("FETCHING", pendingFrames)
       ELSE UNCHANGED <<rotation, rotationUpdates, pendingFrames>>
    /\ UNCHANGED <<boardMounted, lastTimeRef, speedRef, framesSinceSpin>>
    /\ UNCHANGED <<audioVars, decodeVars, appVars, graphVars, radioVars>>

\* the parent returns to IDLE (App.handleCloseModal, a click)
ParentIdle ==
    /\ gameState = "FETCHING"
    /\ gameState' = "IDLE"
    /\ pendingFrames' = IF boardMounted THEN SpinEffect("IDLE", pendingFrames)
                        ELSE pendingFrames
    /\ UNCHANGED <<boardMounted, rotation, rotationUpdates, lastTimeRef, speedRef,
                   thrown, pendingHit, framesSinceSpin>>
    /\ UNCHANGED <<audioVars, decodeVars, appVars, graphVars, radioVars>>

\* the component unmounts: the effect's cleanup runs and the queued state
\* updates are dropped; the onHit timer is not cleared
BoardUnmount ==
    /\ boardMounted
    /\ boardMounted' = FALSE
    /\ pendingFrames' = CancelFrame(pendingFrames)
    /\ rotationUpdates' = 0
    /\ UNCHANGED <<gameState, rotation, lastTimeRef, speedRef, thrown, pendingHit,
                   framesSinceSpin>>
    /\ UNCHANGED <<audioVars, decodeVars, appVars, graphVars, radioVars>>

\* handleThrow in any state other than SPINNING: the early return, nothing
\* is set, no dart is drawn and no timer is started
ThrowIgnored ==
    /\ boardMounted
    /\ gameState # "SPINNING"
    /\ UNCHANGED boardVars
    /\ UNCHANGED <<audioVars, decodeVars, appVars, graphVars, radioVars>>

NextBoard ==
    \/ ParentSpin
    \/ AnimateFrame
    \/ RenderRotation
    \/ HandleThrow
    \/ ThrowIgnored
    \/ OnHit
    \/ ParentIdle
    \/ BoardUnmount

SpecBoard == InitBoard /\ [][NextBoard]_vars

\* C8: every throw resolves to a slice index in 0..7 and so to one of the
\* eight categories.
C8_IndexInRange ==
    thrown.done =>
        /\ thrown.index \in 0..7
        /\ \E i \in 1..Len(CATEGORIES) : thrown.hitCategory = CATEGORIES[i]

\* the exact value of n modulo 360 degrees, in [0, 360)
Mod360(n) == n % Deg(360)

\* C9: the effective angle is (hitAngleDeg - rotation) mod 360 normalised
\* into [0, 360) (compared wherever that value is a representable number)
\* and the index is floor(effectiveAngle / 45).
C9_EffectiveAngle ==
    thrown.done =>
        /\ thrown.effectiveAngle >= 0
        /\ thrown.effectiveAngle < Deg(360)
        /\ thrown.index = thrown.effectiveAngle \div Deg(45)
        /\ (Fl(Mod360(thrown.hitAngleDeg - thrown.rotation))
              = Mod360(thrown.hitAngleDeg - thrown.rotation))
             => thrown.effectiveAngle = Mod360(thrown.hitAngleDeg - thrown.rotation)

\* the slice d3.pie draws at a board-relative angle: slice i covers
\* [45 i, 45 (i + 1)) degrees clockwise from the top
SliceDrawnAt(boardAngle) == Mod360(boardAngle) \div Deg(45)

\* C10: the category the resolver returns is the category of the slice drawn
\* at the hit's screen angle, the board being turned clockwise by rotation.
C10_RenderMatchesResolve ==
    thrown.done =>
        thrown.hitCategory =
            CATEGORIES[SliceDrawnAt(thrown.hitAngleDeg - thrown.rotation) + 1]

\* C17 (as stated): while the board spins, every animation frame, the first
\* one after spinning starts included, advances the rotation by 8 degrees
\* modulo 360, and the rotation stays in [0, 360).
C17_EveryFrameAdvances ==
    /\ [](rotation >= 0 /\ rotation < Deg(360))
    /\ [][AnimateFrame =>
             EffectiveRotation' = (EffectiveRotation + Deg(8)) % Deg(360)]_vars

\* C17 (amended): the first animation frame after spinning starts leaves the
\* rotation as it is; every later frame advances it by 8 degrees modulo 360;
\* frames run only while the state is SPINNING and the rotation stays in
\* [0, 360).
C17_FramesAfterFirstAdvance ==
    /\ [](rotation >= 0 /\ rotation < Deg(360))
    /\ [][AnimateFrame =>
             /\ gameState = "SPINNING"
             /\ EffectiveRotation' =
                    IF framesSinceSpin = 0 THEN EffectiveRotation
                    ELSE (EffectiveRotation + Deg(8)) % Deg(360)]_vars

\* the second frame of a spin has run and its update is rendered: the board
\* went from 352 degrees over 360 to 0, the first frame having changed nothing
C17_Witness ==
    /\ boardMounted
    /\ gameState = "SPINNING"
    /\ framesSinceSpin = 2
    /\ rotationUpdates = 0
    /\ rotation = 0
    /\ lastTimeRef = 1

\* C18: in every step that leaves the state other than SPINNING (the step
\* that stops the spin included) the rendered rotation does not change.
C18_StoppedRotationFrozen ==
    [][gameState' # "SPINNING" => rotation' = rotation]_vars

\* C19: while a throw is being shown, the board is displayed at the rotation
\* handleThrow used to resolve it.
C19_ThrowRotationIsFrozen ==
    thrown.done => rotation = thrown.rotation

\* C20: at most one frame callback is pending; one is pending only while
\* the component is mounted and the state is SPINNING, and it is a callback
\* made by a SPINNING render.
C20_FramesSequential ==
    /\ Len(pendingFrames) <= 1
    /\ pendingFrames # <<>> =>
          /\ boardMounted
          /\ gameState = "SPINNING"
          /\ pendingFrames[1].closure = "SPINNING"
          /\ pendingFrames[1].isRef

\* frames have run in a spin that a throw has ended: none is pending
C20_Witness ==
    /\ thrown.done
    /\ gameState = "THROWN"
    /\ framesSinceSpin = 2
    /\ pendingFrames = <<>>

\* the categories as a set
CategorySet == {CATEGORIES[i] : i \in 1..Len(CATEGORIES)}

\* C21: THROWN is entered only from SPINNING, a click in any other state
\* changes nothing, and each spin gives at most one throw and exactly one
\* onHit call, which carries one of the categories.
C21_OneThrowOneHit ==
    /\ [][gameState' = "THROWN" /\ gameState # "THROWN" => gameState = "SPINNING"]_vars
    /\ [][ThrowIgnored => UNCHANGED vars]_vars
    /\ [][pendingHit' # pendingHit /\ Len(pendingHit') > Len(pendingHit)
            => gameState = "SPINNING" /\ gameState' = "THROWN"]_vars
    /\ [](Len(pendingHit) = IF gameState = "THROWN" THEN 1 ELSE 0)
    /\ [](\A i \in 1..Len(pendingHit) : pendingHit[i] \in CategorySet)

-----------------------------------------------------------------------------
(* SpecApp: the quiz view of App (handleCategorySelect and its fetches,     *)
(* the modal, ambient mode and the scoreboard)                              *)

\* how the content request can end: a JSON text, an empty text, an exception
ContentOutcomes == {"content", "empty", "throws"}

\* how an asset request can end: data, a response without data, an exception
AssetOutcomes == {"data", "none", "throws"}

\* a fetchTopicContent that lets the exception of the request escape
fetchTopicContentRethrows(hasClient, k, outcome) ==
    IF ~hasClient THEN Null
    ELSE IF outcome = "content"
         THEN [kind |-> "content",
               fact |-> [kind |-> "fact", sel |-> k],
               quiz |-> [kind |-> "quiz", sel |-> k, correctAnswer |-> CorrectOption]]
         ELSE IF outcome = "throws" THEN [kind |-> "rejected"] ELSE Null

\* fetchTopicContent(category) of call k: null without a client, the parsed
\* JSON when the response has a text, null when it has none, null from the
\* catch when the request or JSON.parse throws
fetchTopicContent(hasClient, k, outcome) ==
    IF ~hasClient THEN Null
    ELSE IF outcome = "content"
         THEN [kind |-> "content",
               fact |-> [kind |-> "fact", sel |-> k],
               quiz |-> [kind |-> "quiz", sel |-> k, correctAnswer |-> CorrectOption]]
         ELSE Null

\* fetchTriviaImage(fact) of call k: a data URL, or null (no client, no
\* inline data in the response, or the catch)
fetchTriviaImage(hasClient, k, outcome) ==
    IF hasClient /\ outcome = "data" THEN [kind |-> "image", sel |-> k] ELSE Null

\* fetchTriviaAudio(fact) of call k: the base64 audio, or null
fetchTriviaAudio(hasClient, k, outcome) ==
    IF hasClient /\ outcome = "data" THEN [kind |-> "audio", sel |-> k] ELSE Null

\* the apology text set when no content came back
Fallback(category, k) == [kind |-> "fallback", sel |-> k, category |-> category]

\* a handleQuizAnswer that counts every answer as correct
handleQuizAnswerAlwaysCorrect(prev, category, isCorrect) ==
    IF category = "null" THEN prev
    ELSE [prev EXCEPT ![category] = [correct |-> @.correct + 1, wrong |-> @.wrong]]

\* handleQuizAnswer(isCorrect): the setScores updater applied to prev
handleQuizAnswer(prev, category, isCorrect) ==
    IF category = "null" THEN prev
    ELSE [prev EXCEPT ![category] =
            [correct |-> @.correct + (IF isCorrect THEN 1 ELSE 0),
             wrong |-> @.wrong + (IF isCorrect THEN 0 ELSE 1)]]

\* the page behind the modal can be clicked: the modal (fixed, inset-0) is
\* closed, and in ambient mode the header and main are not shown
PageClickable == ~app.modalOpen /\ ~app.isAmbientMode

\* the await handleCategorySelect call k stands at: "content", "assets",
\* "done" (or "rejected"), and "none" while the call has not been made
FetchStage(a, k) == IF k \in 1..Len(a.calls) THEN a.calls[k].stage ELSE "none"

\* handleCategorySelect(category, view) up to its await; the render opens
\* the modal, whose isOpen effect resets the quiz state
CategorySelect(category, view) ==
    /\ PageClickable
    /\ Len(app.calls) < MaxSelections
    /\ app' = [app EXCEPT !.currentFact = Null,
                          !.currentQuiz = Null,
                          !.currentImage = Null,
                          !.currentAudio = Null,
                          !.isAssetsLoading = FALSE,
                          !.isAmbientMode = FALSE,
                          !.currentCategory = category,
                          !.initialModalView = view,
                          !.gameState = "FETCHING",
                          !.modalOpen = TRUE,
                          !.selectedOption = "null",
                          !.quizResult = "null",
                          !.calls = Append(@, [stage |-> "content",
                                               category |-> category])]

\* a click on a card of the category grid (its fact or its quiz button)
HandleCategorySelect ==
    /\ \E category \in AppCategories : \E view \in {"fact", "quiz"} :
         CategorySelect(category, view)
    /\ UNCHANGED <<audioVars, decodeVars, boardVars, graphVars, radioVars>>

\* handleRandom: the "Verras me!" button of the header
HandleRandom ==
    /\ \E category \in AppCategories : CategorySelect(category, "fact")
    /\ UNCHANGED <<audioVars, decodeVars, boardVars, graphVars, radioVars>>

\* the continuation of handleCategorySelect call k after
\* await fetchTopicContent(category)
ContentArrives(k) ==
    /\ FetchStage(app, k) = "content"
    /\ \E outcome \in ContentOutcomes :
         LET content == fetchTopicContent(app.ai, k, outcome)
         IN  IF content.kind = "rejected"
             THEN app' = [app EXCEPT !.calls[k].stage = "rejected"]
             ELSE IF content.kind = "content"
             THEN app' = [app EXCEPT !.currentFact = content.fact,
                                     !.currentQuiz = content.quiz,
                                     !.gameState = "SHOWING_CONTENT",
                                     !.isAssetsLoading = TRUE,
                                     !.calls[k].stage = "assets"]
             ELSE app' = [app EXCEPT !.currentFact =
                                         Fallback(app.calls[k].category, k),
                                     !.gameState = "SHOWING_CONTENT",
                                     !.calls[k].stage = "done"]
    /\ UNCHANGED <<audioVars, decodeVars, boardVars, graphVars, radioVars>>

\* the .then of Promise.all([fetchTriviaImage, fetchTriviaAudio]) of call k
AssetsArrive(k) ==
    /\ FetchStage(app, k) = "assets"
    /\ \E imgOutcome \in AssetOutcomes : \E audioOutcome \in AssetOutcomes :
         app' = [app EXCEPT !.currentImage = fetchTriviaImage(app.ai, k, imgOutcome),
                            !.currentAudio = fetchTriviaAudio(app.ai, k, audioOutcome),
                            !.isAssetsLoading = FALSE,
                            !.calls[k].stage = "done"]
    /\ UNCHANGED <<audioVars, decodeVars, boardVars, graphVars, radioVars>>

\* handleCloseModal: the close button or the backdrop of the modal
HandleCloseModal ==
    /\ app.modalOpen
    /\ app' = [app EXCEPT !.modalOpen = FALSE, !.gameState = "IDLE"]
    /\ UNCHANGED <<audioVars, decodeVars, boardVars, graphVars, radioVars>>

\* the "Sfeer" button of the header, rendered while an image is held
EnterAmbient ==
    /\ PageClickable
    /\ app.currentImage.kind # "null"
    /\ app' = [app EXCEPT !.isAmbientMode = TRUE]
    /\ UNCHANGED <<audioVars, decodeVars, boardVars, graphVars, radioVars>>

\* the exit button of the ambient overlay, rendered while isAmbientMode and
\* an image is held
ExitAmbient ==
    /\ app.isAmbientMode
    /\ app.currentImage.kind # "null"
    /\ app' = [app EXCEPT !.isAmbientMode = FALSE]
    /\ UNCHANGED <<audioVars, decodeVars, boardVars, graphVars, radioVars>>

\* handleOptionClick(option) of FactModal on the quiz shown, then App's
\* handleQuizAnswer
HandleOptionClick ==
    /\ app.modalOpen
    /\ app.gameState # "FETCHING"
    /\ app.currentQuiz.kind # "null"
    /\ \E option \in Options :
         IF app.quizResult # "null"
         THEN UNCHANGED app
         ELSE LET isCorrect == option = app.currentQuiz.correctAnswer
              IN  app' = [app EXCEPT
                            !.selectedOption = option,
                            !.quizResult = IF isCorrect THEN "correct" ELSE "wrong",
                            !.scores = handleQuizAnswer(@, app.currentCategory,
                                                        isCorrect)]
    /\ UNCHANGED <<audioVars, decodeVars, boardVars, graphVars, radioVars>>

\* the API key is configured or it is not
InitApp ==
    /\ \E hasClient \in BOOLEAN : InitAppState(hasClient)
    /\ InitAudioVars /\ InitDecodeVars /\ InitBoardVars
    /\ InitGraphVars /\ InitRadioVars

NextApp ==
    \/ HandleCategorySelect
    \/ HandleRandom
    \/ \E k \in Selections : ContentArrives(k)
    \/ \E k \in Selections : AssetsArrive(k)
    \/ HandleCloseModal
    \/ EnterAmbient
    \/ ExitAmbient
    \/ HandleOptionClick

SpecApp == InitApp /\ [][NextApp]_vars

\* the content request settles and the continuation of every
\* handleCategorySelect call runs
SpecAppFair == SpecApp /\ \A k \in Selections : WF_vars(ContentArrives(k))

\* C22: gameState enters SHOWING_CONTENT only from FETCHING, and once the
\* modal is closed (IDLE, modalOpen false) it stays IDLE until the next
\* category selection, whenever the content fetch completes.
C22_ShowingOnlyFromFetching ==
    /\ [][app'.gameState = "SHOWING_CONTENT" /\ app.gameState # "SHOWING_CONTENT"
            => app.gameState = "FETCHING"]_vars
    /\ [][app.gameState = "IDLE" /\ ~app.modalOpen /\ app'.gameState # "IDLE"
            => /\ app'.gameState = "FETCHING"
               /\ Len(app'.calls) = Len(app.calls) + 1]_vars

\* the handleCategorySelect call made last, 0 before the first
LatestSelection == Len(app.calls)

\* a value held by App is null or was fetched by the latest call
FromLatest(v) == v.kind # "null" => v.sel = LatestSelection

\* C23: while content is shown, the fact, quiz, image and audio held all come
\* from the fetches of the latest handleCategorySelect call; the continuation
\* of an earlier call writes nothing once a newer call has begun; and
\* isAssetsLoading is false only when the latest call has no asset fetch in
\* flight.
C23_ContentFromLatestSelection ==
    /\ [](app.gameState = "SHOWING_CONTENT" =>
            /\ FromLatest(app.currentFact)
            /\ FromLatest(app.currentQuiz)
            /\ FromLatest(app.currentImage)
            /\ FromLatest(app.currentAudio))
    /\ [][\A k \in Selections :
            k < LatestSelection /\ FetchStage(app', k) # FetchStage(app, k) =>
              /\ app'.gameState = app.gameState
              /\ app'.currentFact = app.currentFact
              /\ app'.currentQuiz = app.currentQuiz
              /\ app'.currentImage = app.currentImage
              /\ app'.currentAudio = app.currentAudio
              /\ app'.isAssetsLoading = app.isAssetsLoading]_vars
    /\ [](~app.isAssetsLoading => FetchStage(app, LatestSelection) # "assets")

\* C24: ambient mode is on only while an image is held, so the header or
\* the ambient overlay with its exit button is always rendered.
C24_AmbientHasImage ==
    app.isAmbientMode => app.currentImage.kind # "null"

\* C25: the step that answers a quiz adds exactly one to one counter of the
\* current category (correct if the option equals correctAnswer, else wrong)
\* and leaves every other counter as it was; the scoreboard changes in no
\* other step, an option click on an answered quiz changes nothing, and no
\* counter decreases.
C25_OneCounterPerAnswer ==
    [][/\ (app.quizResult = "null" /\ app'.quizResult # "null") =>
            /\ app.currentCategory \in AppCategories
            /\ app'.quizResult =
                 IF app'.selectedOption = app.currentQuiz.correctAnswer
                 THEN "correct" ELSE "wrong"
            /\ \A c \in AppCategories :
                 /\ app'.scores[c].correct = app.scores[c].correct +
                      (IF c = app.currentCategory /\ app'.quizResult = "correct"
                       THEN 1 ELSE 0)
                 /\ app'.scores[c].wrong = app.scores[c].wrong +
                      (IF c = app.currentCategory /\ app'.quizResult = "wrong"
                       THEN 1 ELSE 0)
       /\ app'.scores # app.scores =>
            app.quizResult = "null" /\ app'.quizResult # "null"
       /\ (app.quizResult # "null" /\ app'.quizResult # "null") =>
            app'.scores = app.scores /\ app'.quizResult = app.quizResult
       /\ \A c \in AppCategories :
            /\ app'.scores[c].correct >= app.scores[c].correct
            /\ app'.scores[c].wrong >= app.scores[c].wrong]_vars

\* two quizzes of one category answered, the first right and this one wrong,
\* the other category untouched
C25_Witness ==
    /\ app.modalOpen
    /\ app.quizResult = "wrong"
    /\ app.selectedOption # app.currentQuiz.correctAnswer
    /\ app.scores[app.currentCategory] = [correct |-> 1, wrong |-> 1]
    /\ \A c \in AppCategories \ {app.currentCategory} :
         app.scores[c] = [correct |-> 0, wrong |-> 0]

\* C26: every handleCategorySelect call leaves its await, and the step that
\* does so sets SHOWING_CONTENT with a non-null fact: the fetched fact with
\* the asset fetch started, or the apology text with no asset fetch started.
C26_EveryCallShowsContent ==
    /\ \A k \in Selections :
         (FetchStage(app, k) = "content") ~> (FetchStage(app, k) \in {"assets", "done"})
    /\ [][\A k \in Selections :
            FetchStage(app, k) = "content" /\ FetchStage(app', k) # "content" =>
              /\ app'.gameState = "SHOWING_CONTENT"
              /\ app'.currentFact.kind \in {"fact", "fallback"}
              /\ app'.currentFact.sel = k
              /\ app'.currentFact.kind = "fact" =>
                   FetchStage(app', k) = "assets" /\ app'.isAssetsLoading
              /\ app'.currentFact.kind = "fallback" =>
                   /\ FetchStage(app', k) = "done"
                   /\ app'.isAssetsLoading = app.isAssetsLoading
                   /\ app'.currentFact.category = app.calls[k].category]_vars
    /\ [](app.gameState = "SHOWING_CONTENT" => app.currentFact.kind # "null")

\* a call whose content request failed shows the apology text and has no
\* asset fetch in flight
C26_Witness ==
    /\ app.ai
    /\ app.gameState = "SHOWING_CONTENT"
    /\ app.currentFact.kind = "fallback"
    /\ FetchStage(app, app.currentFact.sel) = "done"
    /\ ~app.isAssetsLoading

-----------------------------------------------------------------------------
(* SpecGraph: the graph explorer of index.js (loadTopic, the history stack, *)
(* the Back button and the loader)                                          *)

\* the titles typed or clicked: articles that exist and one that does not
Topics == {"Internet", "Web", "Missing"}

\* the query of getLinks finds the page (its pageId is not '-1')
Exists(title) == title # "Missing"

\* the titles getLinks returns for a page
LinksOf(title) ==
    IF title = "Internet" THEN {"Web"}
    ELSE IF title = "Web" THEN {"Internet"} ELSE {}

\* how the request of getLinks can end: a response, or an exception
LinkOutcomes == {"response", "throws"}

\* WikiAPI.getLinks(title): null when the page is missing, its link titles
\* otherwise, [] from the catch
getLinks(title, outcome) ==
    IF outcome = "throws" THEN [kind |-> "links", titles |-> {}]
    ELSE IF ~Exists(title) THEN Null
    ELSE [kind |-> "links", titles |-> LinksOf(title)]

\* a history step that pushes whatever addToHistory says
PushHistoryAlways(hist, cur, addToHistory) ==
    IF cur # "null" THEN Append(hist, cur) ELSE hist

\* if (addToHistory && state.currentTopic) state.history.push(state.currentTopic)
PushHistory(hist, cur, addToHistory) ==
    IF addToHistory /\ cur # "null" THEN Append(hist, cur) ELSE hist

\* the nodes drawn
GraphNodes == IF graph.centre = "null" THEN {} ELSE {graph.centre} \cup graph.links

\* the stage of loadTopic call id: "links" while it awaits getLinks, "drawn"
\* or "notfound" after, "none" while the call has not been made
LoadStage(g, id) == IF id \in 1..Len(g.loads) THEN g.loads[id].stage ELSE "none"

\* a loadTopic call is waiting for getLinks
LoadInFlight == \E id \in Loads : LoadStage(graph, id) = "links"

\* Graph.loadTopic(topic, addToHistory) up to its await, on the history
\* stack hist the caller left; nav is what the caller leaves in lastNav
LoadTopic(topic, addToHistory, hist, nav) ==
    /\ topic # ""
    /\ Len(graph.loads) < MaxLoads
    /\ LET pushed == PushHistory(hist, graph.currentTopic, addToHistory)
       IN  graph' = [graph EXCEPT
                       !.loaderActive = TRUE,
                       !.selectedNode = "null",
                       !.history = pushed,
                       !.currentTopic = topic,
                       !.backDisabled = (pushed = <<>>),
                       !.loads = Append(@, [stage |-> "links", topic |-> topic,
                                            before |-> [topic |-> graph.currentTopic,
                                                        history |-> hist]]),
                       !.lastNav = nav]

\* the snapshot a navigation leaves for the Back that follows it
NavFrom == [kind |-> "nav", topic |-> graph.currentTopic, history |-> graph.history]

\* the search form is submitted with a non-empty value
Search ==
    /\ \E val \in Topics : LoadTopic(val, TRUE, graph.history, NavFrom)
    /\ UNCHANGED <<audioVars, decodeVars, boardVars, appVars, radioVars>>

\* handleDoubleClick on a node of the graph
HandleDoubleClick ==
    /\ \E nodeId \in GraphNodes : LoadTopic(nodeId, TRUE, graph.history, NavFrom)
    /\ UNCHANGED <<audioVars, decodeVars, boardVars, appVars, radioVars>>

\* the focus button of the panel
Focus ==
    /\ graph.selectedNode # "null"
    /\ LoadTopic(graph.selectedNode, TRUE, graph.history, NavFrom)
    /\ UNCHANGED <<audioVars, decodeVars, boardVars, appVars, radioVars>>

\* the Back button: pop, then loadTopic(prev, false)
Back ==
    /\ ~graph.backDisabled
    /\ Len(graph.history) > 0
    /\ LoadTopic(graph.history[Len(graph.history)], FALSE,
                 SubSeq(graph.history, 1, Len(graph.history) - 1),
                 [kind |-> "back"])
    /\ UNCHANGED <<audioVars, decodeVars, boardVars, appVars, radioVars>>

\* the continuation of loadTopic call id after await WikiAPI.getLinks(topic)
LinksArrive(id) ==
    /\ LoadStage(graph, id) = "links"
    /\ \E outcome \in LinkOutcomes :
         LET linkedTopics == getLinks(graph.loads[id].topic, outcome)
         IN  IF linkedTopics.kind = "null"
             THEN graph' = [graph EXCEPT !.loads[id].stage = "notfound",
                                         !.loaderActive = FALSE]
             ELSE graph' = [graph EXCEPT !.loads[id].stage = "drawn",
                                         !.centre = graph.loads[id].topic,
                                         !.links = linkedTopics.titles,
                                         !.loaderActive = FALSE]
    /\ UNCHANGED <<audioVars, decodeVars, boardVars, appVars, radioVars>>

\* handleClick on a node, up to await WikiAPI.getContent(nodeId)
HandleClick ==
    /\ Len(graph.clicks) < MaxClicks
    /\ \E nodeId \in GraphNodes :
         graph' = [graph EXCEPT !.clicks = Append(@, nodeId),
                                !.loaderActive = TRUE]
    /\ UNCHANGED <<audioVars, decodeVars, boardVars, appVars, radioVars>>

\* the sequence s without its element i
RemoveAt(s, i) == SubSeq(s, 1, i - 1) \o SubSeq(s, i + 1, Len(s))

\* the continuation of a handleClick call: the panel opens when content
\* came back
PageArrives ==
    /\ \E c \in 1..Len(graph.clicks) : \E content \in BOOLEAN :
         graph' = [graph EXCEPT
                     !.selectedNode = IF content THEN graph.clicks[c] ELSE @,
                     !.clicks = RemoveAt(@, c),
                     !.loaderActive = FALSE]
    /\ UNCHANGED <<audioVars, decodeVars, boardVars, appVars, radioVars>>

\* UI.closePanel(): handleClick on the empty canvas, or the panel's close button
ClosePanel ==
    /\ graph' = [graph EXCEPT !.selectedNode = "null"]
    /\ UNCHANGED <<audioVars, decodeVars, boardVars, appVars, radioVars>>

InitGraph ==
    /\ InitGraphVars
    /\ InitAudioVars /\ InitDecodeVars /\ InitBoardVars /\ InitAppVars /\ InitRadioVars

NextGraph ==
    \/ Search
    \/ HandleDoubleClick
    \/ Focus
    \/ Back
    \/ \E id \in Loads : LinksArrive(id)
    \/ HandleClick
    \/ PageArrives
    \/ ClosePanel

SpecGraph == InitGraph /\ [][NextGraph]_vars

\* a step that is the Back button's handler
BackStep ==
    Len(graph'.loads) = Len(graph.loads) + 1 /\ graph'.lastNav.kind = "back"

\* C27: Back right after a navigation A -> B (loadTopic(B, true)) restores
\* currentTopic = A and the history stack the navigation started from; Back
\* never pushes onto history; the Back button is disabled exactly when the
\* history is empty.
C27_BackRestores ==
    /\ [][BackStep =>
            /\ Len(graph'.history) = Len(graph.history) - 1
            /\ graph.lastNav.kind = "nav" =>
                 /\ graph'.currentTopic = graph.lastNav.topic
                 /\ graph'.history = graph.lastNav.history]_vars
    /\ [](graph.backDisabled <=> graph.history = <<>>)

\* Internet -> Web -> a third topic, then Back: Web again on the stack
\* <<Internet>>
C27_Witness ==
    /\ graph.lastNav.kind = "back"
    /\ graph.currentTopic = "Web"
    /\ graph.history = <<"Internet">>
    /\ ~graph.backDisabled

\* C28: when the topic is not found, loadTopic leaves currentTopic, the
\* history stack and the graph as they were when it was called.
C28_NotFoundChangesNothing ==
    [][\A id \in Loads :
         LoadStage(graph, id) = "links" /\ LoadStage(graph', id) = "notfound" =>
           /\ graph'.currentTopic = graph.loads[id].before.topic
           /\ graph'.history = graph.loads[id].before.history
           /\ graph'.centre = graph.centre /\ graph'.links = graph.links]_vars

\* every loadTopic call made so far asked for a page that exists
AllTopicsExist == \A id \in 1..Len(graph.loads) : Exists(graph.loads[id].topic)

\* C29: with loadTopic calls whose topics all exist, once no load is in
\* flight the central node of the graph is currentTopic, and the loader is
\* active while a load is in flight.
C29_GraphFollowsTopic ==
    AllTopicsExist =>
        /\ ~LoadInFlight => graph.centre = graph.currentTopic
        /\ LoadInFlight => graph.loaderActive

-----------------------------------------------------------------------------
(* SpecRadio: components/RadioPlayer.tsx.  The click handlers are rendered  *)
(* at once; the updates made by the audio element's error event and by the *)
(* catch of play() wait for a later render, and a click that comes first   *)
(* is rendered without them.                                               *)

\* STATIONS.length
StationCount == 8

\* the values of the volume slider followed, in percent
Volumes == {0, 50, 100}

\* one queued state update; sync tells that it was made in a click
SetIsPlaying(v, sync) == [hook |-> "isPlaying", val |-> v, sync |-> sync]
SetError(v, sync) == [hook |-> "error", val |-> v, sync |-> sync]
SetNextIndex(sync) == [hook |-> "index", val |-> FALSE, sync |-> sync]

\* an update applied to the state of its hook;
\* the index updater is prev => (prev + 1) % STATIONS.length
ApplyUpdate(st, u) ==
    IF u.hook = "isPlaying" THEN [st EXCEPT !.isPlaying = u.val]
    ELSE IF u.hook = "error" THEN [st EXCEPT !.error = u.val]
    ELSE [st EXCEPT !.index = (@ + 1) % StationCount]

RECURSIVE ApplyAll(_, _)
ApplyAll(st, us) ==
    IF us = <<>> THEN st ELSE ApplyAll(ApplyUpdate(st, Head(us)), Tail(us))

IsSync(u) == u.sync

\* the updates a render of a click applies
SyncOnly(us) == SelectSeq(us, IsSync)

\* the state as rendered
Rendered == RadioState(radio.isPlaying, radio.error, radio.currentStationIndex)

\* the effect on [isPlaying, currentStationIndex] runs after a render that
\* changed one of them
EffectRuns(st) ==
    st.isPlaying # radio.isPlaying \/ st.index # radio.currentStationIndex

\* the effect's own update: if (isPlaying) setError(false)
EffectUpdates(st) ==
    IF EffectRuns(st) /\ st.isPlaying THEN <<SetError(FALSE, TRUE)>> ELSE <<>>

\* the audio element after the effect of the render of st: play() when
\* playing, pause() when not, untouched when the effect does not run
EffectPaused(st) == IF EffectRuns(st) THEN ~st.isPlaying ELSE radio.audioPaused

\* the promises of play() after that effect
EffectPlays(st) ==
    IF EffectRuns(st) /\ st.isPlaying /\ radio.pendingPlays < MaxPendingPlays
    THEN radio.pendingPlays + 1 ELSE radio.pendingPlays

\* a click handler that made the updates us: they are rendered with the
\* click's updates made before and without the updates still waiting, the
\* effect runs on that render, and its update is rendered too
Click(us) ==
    LET waiting == radio.updates # <<>>
        base == IF waiting THEN radio.base ELSE Rendered
        list1 == radio.updates \o us
        r1 == ApplyAll(base, SyncOnly(list1))
        list2 == list1 \o EffectUpdates(r1)
        r2 == ApplyAll(base, SyncOnly(list2))
    IN  /\ waiting => Len(list2) <= MaxRadioUpdates
        /\ radio' = [radio EXCEPT
                       !.isPlaying = r2.isPlaying,
                       !.error = r2.error,
                       !.currentStationIndex = r2.index,
                       !.updates = IF waiting THEN list2 ELSE <<>>,
                       !.base = IF waiting THEN base ELSE r2,
                       !.audioPaused = EffectPaused(r1),
                       !.pendingPlays = EffectPlays(r1)]

\* togglePlay: its closure holds the rendered error and isPlaying
TogglePlay ==
    /\ Click((IF radio.error THEN <<SetError(FALSE, TRUE)>> ELSE <<>>)
               \o <<SetIsPlaying(~radio.isPlaying, TRUE)>>)
    /\ UNCHANGED <<audioVars, decodeVars, boardVars, appVars, graphVars>>

\* nextStation
NextStation ==
    /\ Click(<<SetError(FALSE, TRUE), SetIsPlaying(TRUE, TRUE), SetNextIndex(TRUE)>>)
    /\ UNCHANGED <<audioVars, decodeVars, boardVars, appVars, graphVars>>

\* the radio state with the updates us, made outside a click, in the queue
Enqueued(r, us) ==
    [r EXCEPT !.updates = @ \o us,
              !.base = IF r.updates = <<>>
                       THEN RadioState(r.isPlaying, r.error, r.currentStationIndex)
                       ELSE @]

\* the updates of handleError
ErrorUpdates == <<SetIsPlaying(FALSE, FALSE), SetError(TRUE, FALSE)>>

\* a handleError that does not stop playback
HandleErrorKeepsPlaying ==
    /\ Len(radio.updates) + 1 <= MaxRadioUpdates
    /\ radio' = Enqueued(radio, <<SetError(TRUE, FALSE)>>)
    /\ UNCHANGED <<audioVars, decodeVars, boardVars, appVars, graphVars>>

\* handleError: the error event of the audio element
HandleError ==
    /\ Len(radio.updates) + Len(ErrorUpdates) <= MaxRadioUpdates
    /\ radio' = Enqueued(radio, ErrorUpdates)
    /\ UNCHANGED <<audioVars, decodeVars, boardVars, appVars, graphVars>>

\* the promise of play() rejects: the catch stops playback for a
\* NotAllowedError and only logs any other error
PlayRejected ==
    /\ radio.pendingPlays > 0
    /\ \E name \in {"NotAllowedError", "AbortError"} :
         IF name = "NotAllowedError"
         THEN /\ Len(radio.updates) + 1 <= MaxRadioUpdates
              /\ radio' = [Enqueued(radio, <<SetIsPlaying(FALSE, FALSE)>>)
                             EXCEPT !.pendingPlays = @ - 1]
         ELSE radio' = [radio EXCEPT !.pendingPlays = @ - 1]
    /\ UNCHANGED <<audioVars, decodeVars, boardVars, appVars, graphVars>>

\* the promise of play() resolves
PlayResolved ==
    /\ radio.pendingPlays > 0
    /\ radio' = [radio EXCEPT !.pendingPlays = @ - 1]
    /\ UNCHANGED <<audioVars, decodeVars, boardVars, appVars, graphVars>>

\* React renders the waiting updates, all in the order they were made; the
\* effect runs if isPlaying or the station changed
RenderRadio ==
    /\ radio.updates # <<>>
    /\ LET r1 == ApplyAll(radio.base, radio.updates)
           r2 == ApplyAll(r1, EffectUpdates(r1))
       IN  radio' = [radio EXCEPT
                       !.isPlaying = r2.isPlaying,
                       !.error = r2.error,
                       !.currentStationIndex = r2.index,
                       !.base = r2,
                       !.updates = <<>>,
                       !.audioPaused = EffectPaused(r1),
                       !.pendingPlays = EffectPlays(r1)]
    /\ UNCHANGED <<audioVars, decodeVars, boardVars, appVars, graphVars>>

\* the volume slider: setVolume, and the effect sets audio.volume
SetVolume ==
    /\ \E v \in Volumes : radio' = [radio EXCEPT !.volume = v]
    /\ UNCHANGED <<audioVars, decodeVars, boardVars, appVars, graphVars>>

InitRadio ==
    /\ InitRadioVars
    /\ InitAudioVars /\ InitDecodeVars /\ InitBoardVars /\ InitAppVars /\ InitGraphVars

NextRadio ==
    \/ TogglePlay
    \/ NextStation
    \/ HandleError
    \/ PlayRejected
    \/ PlayResolved
    \/ RenderRadio
    \/ SetVolume

SpecRadio == InitRadio /\ [][NextRadio]_vars

\* every update made has been rendered
RadioSettled == radio.updates = <<>>

\* C30: in a settled state error and isPlaying are never both true; a stream
\* error, once rendered, leaves the player paused with error set; a render
\* that starts playback shows no error; the station index stays in 0..7 and
\* changes only by one modulo 8.
C30_ErrorExcludesPlaying ==
    /\ [](RadioSettled => ~(radio.error /\ radio.isPlaying))
    /\ [](radio.currentStationIndex \in 0..(StationCount - 1))
    /\ [][/\ (radio.updates = ErrorUpdates /\ radio'.updates = <<>>) =>
               ~radio'.isPlaying /\ radio'.error
          /\ (~radio.isPlaying /\ radio'.isPlaying) => ~radio'.error
          /\ radio'.currentStationIndex # radio.currentStationIndex =>
               /\ radio'.currentStationIndex =
                    (radio.currentStationIndex + 1) % StationCount
               /\ radio'.isPlaying /\ ~radio'.error]_vars

\* a stream error after playback was started, rendered: paused with error set
C30_Witness ==
    /\ RadioSettled
    /\ radio.error /\ ~radio.isPlaying
    /\ radio.audioPaused
    /\ radio.pendingPlays > 0

=============================================================================
